---- MODULE Spec2Model ----
(***************************************************************************)
(* Dispatch engine of the SMS system: the sms_message table behind        *)
(* DatabaseHandler, the Gateway Client's classification of one exchange,   *)
(* the schedule / send-now request handlers, process_scheduled_sms and    *)
(* the background scheduled_task with its cancellation at shutdown.       *)
(*                                                                         *)
(* A Python str is a sequence of one-character strings; a timestamp is a  *)
(* natural number; SQL NULL in a timestamp column is NULL, Python None in  *)
(* a text column is None.  Every handler runs on one asyncio event loop   *)
(* and the store calls are synchronous, so a handler runs atomically from *)
(* one await of the gateway POST (or of asyncio.sleep) to the next.       *)
(***************************************************************************)
EXTENDS Integers, Sequences, FiniteSets, TLC

\* ------------------------------------------------------------- bounds
MaxTime == 1
MaxRows == 2
MaxRequests == 1
MaxPhones == 21
MaxBatchInput == 45
MaxList == 2
MaxFragments == 3

\* -------------------------------------------------- program constants
batch_size == 20
SMS_MAX_LENGTH == 70
NULL == -1
None == "None"

\* ------------------------------------------------------ Python strings
Range(s) == {s[i] : i \in 1..Len(s)}

RECURSIVE Repeat(_, _)
Repeat(c, n) == IF n = 0 THEN <<>> ELSE <<c>> \o Repeat(c, n - 1)

Digit(d) == CASE d = 0 -> "0" [] d = 1 -> "1" [] d = 2 -> "2" [] d = 3 -> "3"
              [] d = 4 -> "4" [] d = 5 -> "5" [] d = 6 -> "6" [] d = 7 -> "7"
              [] d = 8 -> "8" [] OTHER -> "9"

\* The i-th mobile number of the customer directory: 09000000dd.
Phone(i) == <<"0", "9", "0", "0", "0", "0", "0", "0", Digit(i \div 10), Digit(i % 10)>>

\* ','.join(batch_phones)
RECURSIVE Join(_)
Join(phones) ==
    IF Len(phones) = 0 THEN <<>>
    ELSE IF Len(phones) = 1 THEN phones[1]
    ELSE phones[1] \o <<",">> \o Join(Tail(phones))

\* str.split(sep): the fragments between separators, empty fragments kept.
\* Cut(s, sep, j) is the position of the j-th separator, the ends of s
\* counting as separators 0 and the last.
Cut(s, sep, j) ==
    LET at == {i \in 1..Len(s) : s[i] = sep}
    IN  IF j = 0 THEN 0
        ELSE IF j > Cardinality(at) THEN Len(s) + 1
        ELSE CHOOSE i \in at : Cardinality({p \in at : p <= i}) = j

Split(s, sep) ==
    [j \in 1..(Cardinality({i \in 1..Len(s) : s[i] = sep}) + 1) |->
        SubSeq(s, Cut(s, sep, j - 1) + 1, Cut(s, sep, j) - 1)]

Whitespace == {" ", "\t", "\n"}

RECURSIVE LStrip(_)
LStrip(s) == IF Len(s) > 0 /\ Head(s) \in Whitespace THEN LStrip(Tail(s)) ELSE s

RECURSIVE RStrip(_)
RStrip(s) ==
    IF Len(s) > 0 /\ s[Len(s)] \in Whitespace THEN RStrip(SubSeq(s, 1, Len(s) - 1)) ELSE s

\* str.strip()
Strip(s) == RStrip(LStrip(s))

Digits == {"0", "1", "2", "3", "4", "5", "6", "7", "8", "9"}

\* str.isdigit(): non-empty and every character a digit
IsDigit(s) == Len(s) > 0 /\ \A i \in 1..Len(s) : s[i] \in Digits

\* str.startswith(prefix)
StartsWith(s, prefix) == Len(s) >= Len(prefix) /\ SubSeq(s, 1, Len(prefix)) = prefix

\* Python values whose type decides whether a call raises.
PyStr(v) == [type |-> "str", value |-> v]
PyDatetime(t) == [type |-> "datetime", value |-> t]
PyRaise(exception) == [type |-> "raise", value |-> exception]

\* datetime.replace(year, month): its positional arguments must be integers.
datetime_replace(dt, year, month) ==
    IF year.type # "int" \/ month.type # "int" THEN PyRaise("TypeError") ELSE dt

\* str.replace('T', ' ') on the text of a timestamp: the separator becomes a space.
str_replace_T(v) == PyStr([v.value EXCEPT !.sep = " "])

\* datetime.fromisoformat: the argument must be a str, and a well-formed
\* ISO timestamp; an exception raised while evaluating the argument goes on.
fromisoformat(v) ==
    IF v.type = "raise" THEN v
    ELSE IF v.type # "str" THEN PyRaise("TypeError")
    ELSE IF ~v.value.iso THEN PyRaise("ValueError")
    ELSE PyDatetime(v.value.t)

\* dict.get(key, default)
Get(d, key, default) == IF key \in DOMAIN d THEN d[key] ELSE default

\* ------------------------------------------- Dispatch Record Store
\* One row of public.sms_message; smskey is the row's position (a serial).
NewRow(create_date, message_class, message_body, recipient_no, schedule_date, send_date) ==
    [create_date |-> create_date, message_class |-> message_class,
     message_body |-> message_body, recipient_no |-> recipient_no,
     schedule_date |-> schedule_date, send_date |-> send_date,
     return_code |-> None, return_message |-> None, message_id |-> None]

\* INSERT ... VALUES (NOW(), ...) RETURNING smskey
insert_sms_message(table, t, message_class, message_body, recipient_no, schedule_date, send_date) ==
    Append(table, NewRow(t, message_class, message_body, recipient_no, schedule_date, send_date))

\* update_sms_status without SET send_date = NOW().
update_result_only(table, t, smskey, return_code, return_message, message_id) ==
    [k \in 1..Len(table) |->
        IF k = smskey
        THEN [table[k] EXCEPT !.return_code = return_code,
                              !.return_message = return_message,
                              !.message_id = message_id]
        ELSE table[k]]

\* update_sms_status without the WHERE clause.
update_every_row(table, t, smskey, return_code, return_message, message_id) ==
    [k \in 1..Len(table) |->
        [table[k] EXCEPT !.send_date = t, !.return_code = return_code,
                         !.return_message = return_message,
                         !.message_id = message_id]]

\* UPDATE ... SET send_date = NOW(), ... WHERE smskey = %s
update_sms_status(table, t, smskey, return_code, return_message, message_id) ==
    [k \in 1..Len(table) |->
        IF k = smskey
        THEN [table[k] EXCEPT !.send_date = t, !.return_code = return_code,
                              !.return_message = return_message,
                              !.message_id = message_id]
        ELSE table[k]]

\* Python's int and None as values a caller receives.
PyInt(n) == [type |-> "int", value |-> n]
PyNone == [type |-> "NoneType"]

\* execute_update: cursor.rowcount of the UPDATE ... WHERE smskey = %s.
execute_update(table, smskey) == PyInt(Cardinality({k \in 1..Len(table) : k = smskey}))

\* What update_sms_status hands back: it calls execute_update and has no
\* return statement.
update_sms_status_returns(table, smskey) == PyNone

\* PendingDue without the condition on schedule_date.
PendingAnyDate(table, t) == {k \in 1..Len(table) : table[k].send_date = NULL}

\* WHERE send_date IS NULL AND (schedule_date IS NULL OR schedule_date <= NOW())
PendingDue(table, t) ==
    {k \in 1..Len(table) :
        /\ table[k].send_date = NULL
        /\ (table[k].schedule_date = NULL \/ table[k].schedule_date <= t)}

\* ORDER BY create_date ASC: every order of the keys that is ascending in
\* create_date (rows created in the same instant come in any order).
\* The rows in any order at all.
AnyOrder(table, keys) ==
    {o \in [1..Cardinality(keys) -> keys] : \A i, j \in DOMAIN o : i # j => o[i] # o[j]}

OrderedByCreateDate(table, keys) ==
    {o \in [1..Cardinality(keys) -> keys] :
        /\ \A i, j \in DOMAIN o : i # j => o[i] # o[j]
        /\ \A i, j \in DOMAIN o : i < j => table[o[i]].create_date <= table[o[j]].create_date}

\* RowDict with the columns under the names process_scheduled_sms reads.
RowDictAliased(table, k) ==
    [smskey |-> k, MessageBody |-> table[k].message_body,
     RecipientNo |-> table[k].recipient_no, schedule_date |-> table[k].schedule_date]

\* The columns of the SELECT list, as RealDictCursor keys them.
RowDict(table, k) ==
    [smskey |-> k, message_body |-> table[k].message_body,
     recipient_no |-> table[k].recipient_no, schedule_date |-> table[k].schedule_date]

get_pending_sms_messages(table, t) ==
    {[i \in DOMAIN o |-> RowDict(table, o[i])] : o \in OrderedByCreateDate(table, PendingDue(table, t))}

\* ------------------------------------------------- Gateway Client
\* What one HTTP exchange can do: raise from client.post, answer with a
\* status other than 200, answer 200 with a body that is not XML, or
\* answer 200 with an XML document whose children are `fields`.
Exchange(raises, status_code, well_formed, fields) ==
    [raises |-> raises, status_code |-> status_code, well_formed |-> well_formed, fields |-> fields]

Accepted == Exchange("none", 200, TRUE, [ResultCode |-> "00000", ResultText |-> "OK", MessageId |-> "M1"])
Rejected == Exchange("none", 200, TRUE, [ResultCode |-> "00010", ResultText |-> "rejected"])
Timeout == Exchange("RequestError", 0, FALSE, [ResultText |-> ""])
ServerError == Exchange("none", 500, FALSE, [ResultText |-> ""])
NotXml == Exchange("none", 200, FALSE, [ResultText |-> ""])

Exchanges == {Accepted, Rejected, Timeout, ServerError, NotXml}

\* The exchanges the handlers are run against.
Answers == {Accepted, Rejected, Timeout}

Outcome(success, result_code, result_text, message_id) ==
    [success |-> success,
     result |-> [result_code |-> result_code, result_text |-> result_text, message_id |-> message_id]]

\* Every exchange: client.post raises a transport error or another
\* exception, or answers with a status and a body that is or is not XML,
\* whose root has any of the three children, ResultCode with several texts
\* (None: an empty element).
Tags == {"ResultCode", "ResultText", "MessageId"}

Codes == {"00000", "00010", "0000", None}

Documents ==
    {[tag \in S |-> IF tag = "ResultCode" THEN c ELSE IF tag = "ResultText" THEN "OK" ELSE "M1"] :
        S \in SUBSET Tags, c \in Codes}

ExchangeSpace ==
    {Exchange(raises, status_code, well_formed, fields) :
        raises \in {"none", "RequestError", "Exception"}, status_code \in {200, 404, 500},
        well_formed \in BOOLEAN, fields \in Documents}

\* send_sms parsing the body before it looks at the status.
send_sms_parsing_first(x) ==
    IF x.raises = "RequestError"
    THEN Outcome(FALSE, "NETWORK_ERROR", "network request error", "")
    ELSE IF x.raises # "none" \/ ~x.well_formed
    THEN Outcome(FALSE, "SYSTEM_ERROR", "system error", "")
    ELSE IF x.status_code = 200
    THEN Outcome(Get(x.fields, "ResultCode", "") = "00000",
                 Get(x.fields, "ResultCode", ""),
                 Get(x.fields, "ResultText", ""),
                 Get(x.fields, "MessageId", ""))
    ELSE Outcome(FALSE, "HTTP_ERROR", "HTTP error: " \o ToString(x.status_code), "")

\* send_sms without its `except Exception` clause.
send_sms_uncaught(x) ==
    IF x.raises = "RequestError"
    THEN Outcome(FALSE, "NETWORK_ERROR", "network request error", "")
    ELSE IF x.raises # "none"
    THEN PyRaise("Exception")
    ELSE IF x.status_code = 200
    THEN IF x.well_formed
         THEN Outcome(Get(x.fields, "ResultCode", "") = "00000",
                      Get(x.fields, "ResultCode", ""),
                      Get(x.fields, "ResultText", ""),
                      Get(x.fields, "MessageId", ""))
         ELSE PyRaise("ParseError")
    ELSE Outcome(FALSE, "HTTP_ERROR", "HTTP error: " \o ToString(x.status_code), "")

send_sms(x) ==
    IF x.raises = "RequestError"
    THEN Outcome(FALSE, "NETWORK_ERROR", "network request error", "")
    ELSE IF x.raises # "none"
    THEN Outcome(FALSE, "SYSTEM_ERROR", "system error", "")
    ELSE IF x.status_code = 200
    THEN IF x.well_formed
         THEN Outcome(Get(x.fields, "ResultCode", "") = "00000",
                      Get(x.fields, "ResultCode", ""),
                      Get(x.fields, "ResultText", ""),
                      Get(x.fields, "MessageId", ""))
         ELSE Outcome(FALSE, "SYSTEM_ERROR", "system error", "")
    ELSE Outcome(FALSE, "HTTP_ERROR", "HTTP error: " \o ToString(x.status_code), "")

\* ------------------------------------------------- request codec
\* The characters chr(32)..chr(126), in code order (chr(96) by its code point).
Ascii ==
    <<" ", "!", "\"", "#", "$", "%", "&", "'", "(", ")", "*", "+", ",", "-", ".", "/", "0",
    "1", "2", "3", "4", "5", "6", "7", "8", "9", ":", ";", "<", "=", ">", "?", "@", "A", "B",
    "C", "D", "E", "F", "G", "H", "I", "J", "K", "L", "M", "N", "O", "P", "Q", "R", "S", "T",
    "U", "V", "W", "X", "Y", "Z", "[", "\\", "]", "^", "_", "U+0060", "a", "b", "c", "d", "e", "f",
    "g", "h", "i", "j", "k", "l", "m", "n", "o", "p", "q", "r", "s", "t", "u", "v", "w", "x",
    "y", "z", "{", "|", "}", "~">>

\* ord(c) of an ASCII character.
Ord(c) == 31 + CHOOSE i \in 1..Len(Ascii) : Ascii[i] = c

\* The characters of the unit test's message, named by their code points.
TestBody == <<"U+6E2C", "U+8A66", "U+8A0A", "U+606F">>

\* c.encode('utf-8'): the bytes of one character.
Utf8(c) ==
    CASE c = "U+6E2C" -> <<230, 184, 172>>
      [] c = "U+8A66" -> <<232, 169, 166>>
      [] c = "U+8A0A" -> <<232, 168, 138>>
      [] c = "U+606F" -> <<230, 129, 175>>
      [] OTHER -> <<Ord(c)>>

\* message.encode('utf-8')
RECURSIVE Encode(_)
Encode(message) == IF Len(message) = 0 THEN <<>> ELSE Utf8(Head(message)) \o Encode(Tail(message))

Base64Alphabet ==
    <<"A", "B", "C", "D", "E", "F", "G", "H", "I", "J", "K", "L", "M", "N", "O", "P", "Q", "R",
    "S", "T", "U", "V", "W", "X", "Y", "Z", "a", "b", "c", "d", "e", "f", "g", "h", "i", "j",
    "k", "l", "m", "n", "o", "p", "q", "r", "s", "t", "u", "v", "w", "x", "y", "z", "0", "1",
    "2", "3", "4", "5", "6", "7", "8", "9", "+", "/">>

\* base64.b64encode(bytes).decode('utf-8'): three bytes give four characters
\* of six bits each, a last group of one or two bytes is padded with '='.
RECURSIVE b64encode(_)
b64encode(bytes) ==
    IF Len(bytes) = 0 THEN <<>>
    ELSE IF Len(bytes) = 1
    THEN <<Base64Alphabet[(bytes[1] \div 4) + 1], Base64Alphabet[(bytes[1] % 4) * 16 + 1], "=", "=">>
    ELSE IF Len(bytes) = 2
    THEN <<Base64Alphabet[(bytes[1] \div 4) + 1],
           Base64Alphabet[(bytes[1] % 4) * 16 + (bytes[2] \div 16) + 1],
           Base64Alphabet[(bytes[2] % 16) * 4 + 1], "=">>
    ELSE <<Base64Alphabet[(bytes[1] \div 4) + 1],
           Base64Alphabet[(bytes[1] % 4) * 16 + (bytes[2] \div 16) + 1],
           Base64Alphabet[(bytes[2] % 16) * 4 + (bytes[3] \div 64) + 1],
           Base64Alphabet[(bytes[3] % 64) + 1]>> \o b64encode(SubSeq(bytes, 4, Len(bytes)))

\* settings.SMS_SYS_ID, SMS_SRC_ADDRESS, SMS_DR_FLAG, SMS_FIRST_FAIL_FLAG
sys_id == <<"E", "N", "T", "0", "0", "1">>
src_address ==
    <<"0", "1", "2", "3", "4", "5", "0", "0", "0", "0", "0", "0", "0", "0", "0", "0", "1", "2",
    "3", "4">>
dr_flag == TRUE
first_fail_flag == FALSE

\* str(flag).lower()
StrLower(flag) == IF flag THEN <<"t", "r", "u", "e">> ELSE <<"f", "a", "l", "s", "e">>

XmlDeclaration ==
    <<"<", "?", "x", "m", "l", " ", "v", "e", "r", "s", "i", "o", "n", "=", "\"", "1", ".",
    "0", "\"", " ", "e", "n", "c", "o", "d", "i", "n", "g", "=", "\"", "U", "T", "F", "-", "8",
    "\"", "?", ">">>

\* A line of the f-string: newline, four blanks, <tag>text</tag>.
Element(tag, text) ==
    <<"\n", " ", " ", " ", " ", "<">> \o tag \o <<">">> \o text \o <<"<", "/">> \o tag \o <<">">>

TagSmsSubmitReq == <<"S", "m", "s", "S", "u", "b", "m", "i", "t", "R", "e", "q">>
TagSysId == <<"S", "y", "s", "I", "d">>
TagSrcAddress == <<"S", "r", "c", "A", "d", "d", "r", "e", "s", "s">>
TagDestAddress == <<"D", "e", "s", "t", "A", "d", "d", "r", "e", "s", "s">>
TagSmsBody == <<"S", "m", "s", "B", "o", "d", "y">>
TagDrFlag == <<"D", "r", "F", "l", "a", "g">>
TagFirstFailFlag == <<"F", "i", "r", "s", "t", "F", "a", "i", "l", "F", "l", "a", "g">>

\* for recipient in recipients: xml_request += <DestAddress>recipient.strip()
RECURSIVE DestAddresses(_)
DestAddresses(recipients) ==
    IF Len(recipients) = 0 THEN <<>>
    ELSE Element(TagDestAddress, Strip(Head(recipients))) \o DestAddresses(Tail(recipients))

\* The request with the message itself in SmsBody.
build_xml_request_plain(recipients, message) ==
    XmlDeclaration \o <<"\n", "<">> \o TagSmsSubmitReq \o <<">">>
        \o Element(TagSysId, sys_id) \o Element(TagSrcAddress, src_address)
        \o DestAddresses(recipients)
        \o Element(TagSmsBody, message)
        \o Element(TagDrFlag, StrLower(dr_flag))
        \o Element(TagFirstFailFlag, StrLower(first_fail_flag))
        \o <<"\n", "<", "/">> \o TagSmsSubmitReq \o <<">">>

\* SMSGateway._build_xml_request
build_xml_request(recipients, message) ==
    XmlDeclaration \o <<"\n", "<">> \o TagSmsSubmitReq \o <<">">>
        \o Element(TagSysId, sys_id) \o Element(TagSrcAddress, src_address)
        \o DestAddresses(recipients)
        \o Element(TagSmsBody, b64encode(Encode(message)))
        \o Element(TagDrFlag, StrLower(dr_flag))
        \o Element(TagFirstFailFlag, StrLower(first_fail_flag))
        \o <<"\n", "<", "/">> \o TagSmsSubmitReq \o <<">">>

\* ------------------------------------------------------------ state
VARIABLES
    now,          \* the clock NOW() and datetime.now() read
    sms_message,  \* the table public.sms_message
    gw_calls,     \* per smskey: how often the gateway was invoked for the row
    tk,           \* the runs of process_scheduled_sms: background task, endpoint
    sn,           \* the send_sms_now handler while it runs
    reply,        \* the last response of schedule_sms or send_sms_now
    requests,     \* foreground requests accepted so far
    api           \* a direct caller of the modules: what its calls returned

vars == <<now, sms_message, gw_calls, tk, sn, reply, requests, api>>

\* Who runs process_scheduled_sms: scheduled_task, and a client of
\* POST /api/process-scheduled-sms.
Executors == {"task", "endpoint"}

\* Where an executor stands between two runs.
StartPc(t) == IF t = "task" THEN "sleep" ELSE "idle"

\* The dictionary keys process_scheduled_sms reads from a fetched row.
KeyRecipientNo == "RecipientNo"
KeyMessageBody == "MessageBody"
KeySmsKey == "smskey"

\* message['RecipientNo'] or message['MessageBody'] raises KeyError before
\* send_sms is called.
RaisesKeyError(message) ==
    \/ KeyRecipientNo \notin DOMAIN message
    \/ KeyMessageBody \notin DOMAIN message

\* The for loop from row i on, up to the next await: rows whose handling
\* raises are logged by the inner except clause and skipped (continue); the
\* loop stops at the first row for which send_sms is awaited, at its end, or
\* when the except clause itself raises on message['smskey'].
\* logger.error(f"... (sms_key={message['smskey']}): {e}")
Logged(sms_key, exception) == [sms_key |-> sms_key, exception |-> exception]

\* Loop with an except clause that leaves the loop instead of continuing.
LoopLeavingOnError(msgs, i, errs) ==
    IF i > Len(msgs) THEN [at |-> i, errs |-> errs, outcome |-> "finished"]
    ELSE IF RaisesKeyError(msgs[i])
    THEN [at |-> Len(msgs) + 1, errs |-> Append(errs, Logged(msgs[i][KeySmsKey], "KeyError")),
          outcome |-> "finished"]
    ELSE [at |-> i, errs |-> errs, outcome |-> "post"]

RECURSIVE Loop(_, _, _)
Loop(msgs, i, errs) ==
    IF i > Len(msgs) THEN [at |-> i, errs |-> errs, outcome |-> "finished"]
    ELSE IF RaisesKeyError(msgs[i])
    THEN IF KeySmsKey \notin DOMAIN msgs[i]
         THEN [at |-> i, errs |-> errs, outcome |-> "raised"]
         ELSE Loop(msgs, i + 1, Append(errs, Logged(msgs[i][KeySmsKey], "KeyError")))
    ELSE [at |-> i, errs |-> errs, outcome |-> "post"]

NoRequest == [recipients |-> <<>>, message |-> <<>>]

\* A task that an exception of a tick ends.
Exited(t) == IF t = "task" THEN "exited" ELSE StartPc(t)

\* Where an executor stands after an exception left the per-row handling:
\* process_scheduled_sms's outer except clause returns a failure response,
\* and scheduled_task's own except clause is inside its `while True`, so
\* the task goes on to the next asyncio.sleep.
Caught(t) == StartPc(t)

\* An executor between runs; fetched (the keys of the rows its last run read),
\* read_at (when it read them) and errors (what its except clause logged)
\* record the last run, lap the parity of the task's loop iterations.
IdleExecutor(t) ==
    [pc |-> StartPc(t), pending_messages |-> <<>>, i |-> 0, processed_count |-> 0,
     errors |-> <<>>, fetched |-> <<>>, read_at |-> NULL, request |-> NoRequest,
     returned |-> FALSE, response |-> [success |-> FALSE], lap |-> 0]

\* The executor as its next run starts.
Started(t) ==
    [IdleExecutor(t) EXCEPT !.read_at = now,
                            !.lap = IF t = "task" THEN 1 - tk[t].lap ELSE 0]

\* process_scheduled_sms from row i on, with the table as it is after the
\* step so far: up to the next await of send_sms or to the return.
ContinueLoop(t, e, i, table) ==
    LET l == Loop(e.pending_messages, i, e.errors)
        m == e.pending_messages[l.at]
    IN  /\ sms_message' = table
        /\ IF l.outcome = "post"
           THEN /\ gw_calls' = [gw_calls EXCEPT ![m[KeySmsKey]] = @ + 1]
                /\ tk' = [tk EXCEPT ![t] =
                            [e EXCEPT !.pc = "post", !.i = l.at, !.errors = l.errs,
                                      !.request = [recipients |-> Split(m[KeyRecipientNo], ","),
                                                   message |-> m[KeyMessageBody]]]]
           ELSE /\ gw_calls' = gw_calls
                /\ tk' = [tk EXCEPT ![t] =
                            [e EXCEPT !.pc = IF l.outcome = "finished" THEN StartPc(t) ELSE Caught(t),
                                      !.i = 0, !.errors = l.errs,
                                      !.pending_messages = <<>>, !.processed_count = 0,
                                      !.request = NoRequest, !.returned = TRUE,
                                      !.response =
                                          IF l.outcome = "finished"
                                          THEN [success |-> TRUE,
                                                processed_count |-> e.processed_count,
                                                total_pending |-> Len(e.pending_messages)]
                                          ELSE [success |-> FALSE, message |-> "KeyError",
                                                processed_count |-> 0]]]

\* scheduled_task wakes from asyncio.sleep, or a client calls the endpoint:
\* process_scheduled_sms reads the pending rows (the query may raise, which
\* the outer except clause turns into a failure response) and runs its loop.
RunProcessScheduledSms(t, faults) ==
    /\ tk[t].pc = StartPc(t)
    /\ \E fault \in faults :
         IF fault
         THEN /\ tk' = [tk EXCEPT ![t] =
                          [Started(t) EXCEPT !.pc = Caught(t), !.returned = TRUE,
                               !.response = [success |-> FALSE, message |-> "store error",
                                             processed_count |-> 0]]]
              /\ UNCHANGED <<sms_message, gw_calls>>
         ELSE \E msgs \in get_pending_sms_messages(sms_message, now) :
                ContinueLoop(t, [Started(t) EXCEPT
                                     !.pending_messages = msgs,
                                     !.fetched = [j \in DOMAIN msgs |-> msgs[j].smskey]],
                             1, sms_message)
    /\ UNCHANGED <<now, sn, reply, requests, api>>

ProcessScheduledSms(t) == RunProcessScheduledSms(t, BOOLEAN)

\* The gateway exchange of an executor's current row ends: update_sms_status
\* with the outcome (it may raise, which the inner except clause logs), then
\* the loop goes on with the next row.
TickResume(t, x, fault) ==
    LET e == tk[t]
        m == e.pending_messages[e.i]
        o == send_sms(x)
    IN  IF fault
        THEN ContinueLoop(t, [e EXCEPT !.errors = Append(@, Logged(m[KeySmsKey], "store error"))],
                          e.i + 1, sms_message)
        ELSE ContinueLoop(t, [e EXCEPT !.processed_count = IF o.success THEN @ + 1 ELSE @],
                          e.i + 1,
                          update_sms_status(sms_message, now, m[KeySmsKey], o.result.result_code,
                                            o.result.result_text, o.result.message_id))

\* The server has stopped: lifespan ran its shutdown part.
Stopped == tk["task"].pc = "cancelled"

\* lifespan's shutdown, which the server runs once the foreground requests
\* have been answered: task.cancel() raises CancelledError at the await the
\* task is suspended in; no except clause of the task catches it.
Shutdown ==
    /\ ~Stopped
    /\ sn.pc = "idle"
    /\ tk["endpoint"].pc = "idle"
    /\ tk' = [tk EXCEPT !["task"].pc = "cancelled"]
    /\ UNCHANGED <<now, sms_message, gw_calls, sn, reply, requests, api>>

Tick ==
    /\ ~Stopped
    /\ now < MaxTime
    /\ now' = now + 1
    /\ UNCHANGED <<sms_message, gw_calls, tk, sn, reply, requests, api>>

\* ------------------------------------------------ Recipient Resolver
\* validate_phone_numbers: [ok, valid], valid in input order.
RECURSIVE ValidNumbers(_)
ValidNumbers(phone_numbers) ==
    IF Len(phone_numbers) = 0 THEN <<>>
    ELSE LET phone == Strip(Head(phone_numbers))
         IN  IF StartsWith(phone, <<"0", "9">>) /\ Len(phone) = 10 /\ IsDigit(phone)
             THEN <<phone>> \o ValidNumbers(Tail(phone_numbers))
             ELSE ValidNumbers(Tail(phone_numbers))

\* A validation that gives up the whole list at the first bad number.
validate_or_abort(phone_numbers) ==
    [ok |-> Len(ValidNumbers(phone_numbers)) = Len(phone_numbers),
     valid |-> IF Len(ValidNumbers(phone_numbers)) = Len(phone_numbers)
               THEN ValidNumbers(phone_numbers) ELSE <<>>]

validate_phone_numbers(phone_numbers) ==
    [ok |-> Len(ValidNumbers(phone_numbers)) = Len(phone_numbers),
     valid |-> ValidNumbers(phone_numbers)]

RECURSIVE SplitEach(_, _)
SplitEach(list, sep) ==
    IF Len(list) = 0 THEN <<>> ELSE Split(Head(list), sep) \o SplitEach(Tail(list), sep)

RECURSIVE StripNonEmpty(_)
StripNonEmpty(list) ==
    IF Len(list) = 0 THEN <<>>
    ELSE IF Len(Strip(Head(list))) > 0
    THEN <<Strip(Head(list))>> \o StripNonEmpty(Tail(list))
    ELSE StripNonEmpty(Tail(list))

\* format_phone_list splitting on ',' only.
format_commas_only(phone_string) == StripNonEmpty(SplitEach(<<phone_string>>, ","))

\* format_phone_list: split on ',' then on ';', strip, drop the empty.
format_phone_list(phone_string) ==
    StripNonEmpty(SplitEach(SplitEach(<<phone_string>>, ","), ";"))

\* The first occurrences of a list, in order.
RECURSIVE FirstSeen(_, _)
FirstSeen(list, seen) ==
    IF Len(list) = 0 THEN <<>>
    ELSE IF Head(list) \in seen THEN FirstSeen(Tail(list), seen)
    ELSE <<Head(list)>> \o FirstSeen(Tail(list), seen \cup {Head(list)})

Reverse(list) == [i \in 1..Len(list) |-> list[Len(list) + 1 - i]]

\* list(set(phones)): the distinct elements in an order the hash seed picks;
\* of these orders the first-seen one and its reverse are explored.
ListOfSet(phones) == {FirstSeen(phones, {}), Reverse(FirstSeen(phones, {}))}

\* ----------------------------------------------------------- Batcher
\* The slice valid_phones[i:i+batch_size+1].
BatchOneMore(valid_phones, i) ==
    SubSeq(valid_phones, i + 1,
           IF i + batch_size + 1 < Len(valid_phones) THEN i + batch_size + 1 ELSE Len(valid_phones))

\* for i in range(0, len(valid_phones), batch_size): valid_phones[i:i+batch_size]
Batch(valid_phones, i) ==
    SubSeq(valid_phones, i + 1,
           IF i + batch_size < Len(valid_phones) THEN i + batch_size ELSE Len(valid_phones))

\* The number of full chunks only.
FullBatches(valid_phones) == Len(valid_phones) \div batch_size

NumBatches(valid_phones) == (Len(valid_phones) + batch_size - 1) \div batch_size

\* ---------------------------------------------------- request inputs
Hello == <<"h", "e", "l", "l", "o">>

Bad == <<"1", "2", "3", "4", "5">>

\* The schedule_date field: absent, or a text that is or is not an ISO
\* timestamp (of time t, date and time separated by sep).
NoDate == [type |-> "none", value |-> [iso |-> FALSE, t |-> 0, sep |-> "T"]]
IsoDate(t) == PyStr([iso |-> TRUE, t |-> t, sep |-> "T"])
NotADate == PyStr([iso |-> FALSE, t |-> 0, sep |-> "T"])

\* A request's form fields; customer_phones is what
\* get_phone_numbers_by_customer_ids returns for the selected customers.
Form(message_body, customer_phones, extra_recipients, schedule_date) ==
    [message_body |-> message_body, customer_phones |-> customer_phones,
     extra_recipients |-> extra_recipients, schedule_date |-> schedule_date]

Directory == [i \in 1..MaxPhones |-> Phone(i)]

\* Requests that pass validation: one recipient, or the whole directory
\* (with a free-form field that repeats one number and adds a bad one).
GoodForms(dates) ==
    {Form(Hello, <<Phone(1)>>, <<>>, d) : d \in dates}
        \cup {Form(Hello, Directory, Phone(1) \o <<";">> \o Bad, d) : d \in dates}

\* Requests that validation rejects.
BadForms ==
    {Form(Repeat("x", SMS_MAX_LENGTH + 1), <<Phone(1)>>, <<>>, NoDate),
     Form(Hello, <<>>, <<" ">>, NoDate),
     Form(Hello, <<>>, Bad, NoDate)}

\* Two selected customers whose mobile_number values differ by a trailing
\* blank only.
PaddedForm == Form(Hello, <<Phone(1), Phone(1) \o <<" ">>>>, <<>>, NoDate)

ScheduleForms ==
    GoodForms({NoDate} \cup {IsoDate(t) : t \in 0..MaxTime})
        \cup BadForms \cup {Form(Hello, <<Phone(1)>>, <<>>, NotADate), PaddedForm}

SendNowForms == GoodForms({NoDate}) \cup BadForms \cup {PaddedForm}

\* customer_phones + extra_phones
Merged(form) ==
    form.customer_phones \o
        (IF Len(Strip(form.extra_recipients)) > 0
         THEN format_phone_list(form.extra_recipients) ELSE <<>>)

\* A length check that passes every body.
is_valid_always(message_body) == Len(message_body) >= 0

\* validate_sms_length(message_body)['is_valid']
is_valid(message_body) == Len(message_body) <= SMS_MAX_LENGTH

\* A handler's failure response.
Failure(endpoint, message) == [endpoint |-> endpoint, success |-> FALSE, message |-> message]

NoReply == [endpoint |-> "none", success |-> FALSE]

\* ------------------------------------------------------- schedule_sms
\* The loop of schedule_sms with all its inserts in one transaction.
InsertAllOrNothing(table, t, n, message_class, message_body, valid_phones, schedule_dt) ==
    IF n < NumBatches(valid_phones) THEN table
    ELSE table \o [j \in 1..n |->
                      NewRow(t, message_class, message_body,
                             Join(Batch(valid_phones, (j - 1) * batch_size)), schedule_dt, NULL)]

\* The table after the inserts of the first n batches, one commit each.
RECURSIVE InsertBatches(_, _, _, _, _, _, _)
InsertBatches(table, t, n, message_class, message_body, valid_phones, schedule_dt) ==
    IF n = 0 THEN table
    ELSE insert_sms_message(
             InsertBatches(table, t, n - 1, message_class, message_body, valid_phones, schedule_dt),
             t, message_class, message_body,
             Join(Batch(valid_phones, (n - 1) * batch_size)), schedule_dt, NULL)

\* POST /api/schedule-sms.  directory_fault: the directory query raises;
\* fail_at > 0: the store raises at that insert.  api.faults keeps the two
\* as they were drawn for the request.
RunScheduleSms(faults) ==
    /\ ~Stopped
    /\ requests < MaxRequests
    /\ \E form \in ScheduleForms :
         \E all_phones \in ListOfSet(Merged(form)) :
            LET message_body == form.message_body
                schedule_date == form.schedule_date
                valid_phones == validate_phone_numbers(all_phones).valid
                schedule_dt == IF schedule_date.type = "none" THEN PyDatetime(NULL)
                               ELSE fromisoformat(str_replace_T(schedule_date))
                n == NumBatches(valid_phones)
            IN  /\ Len(sms_message) + n <= MaxRows
                /\ \E directory_fault \in faults, fail_at \in 0..(IF TRUE \in faults THEN n ELSE 0) :
                   (api' = [api EXCEPT !.faults = [directory |-> directory_fault, fail_at |-> fail_at]]) /\
                   IF ~is_valid(message_body)
                   THEN reply' = Failure("schedule-sms", "length exceeded") /\ UNCHANGED <<sms_message, gw_calls>>
                   ELSE IF directory_fault
                   THEN reply' = Failure("schedule-sms", "store error") /\ UNCHANGED <<sms_message, gw_calls>>
                   ELSE IF Len(all_phones) = 0
                   THEN reply' = Failure("schedule-sms", "no recipients") /\ UNCHANGED <<sms_message, gw_calls>>
                   ELSE IF Len(valid_phones) = 0
                   THEN reply' = Failure("schedule-sms", "no valid phone numbers") /\ UNCHANGED <<sms_message, gw_calls>>
                   ELSE IF schedule_dt.type = "raise"
                   THEN reply' = Failure("schedule-sms", "schedule date format error") /\ UNCHANGED <<sms_message, gw_calls>>
                   ELSE LET done == IF fail_at = 0 THEN n ELSE fail_at - 1
                        IN  /\ sms_message' = InsertBatches(sms_message, now, done, "PROMO", message_body,
                                                            valid_phones, schedule_dt.value)
                            /\ gw_calls' = gw_calls \o [j \in 1..done |-> 0]
                            /\ reply' = IF fail_at = 0
                                        THEN [endpoint |-> "schedule-sms", success |-> TRUE,
                                              message |-> "scheduled",
                                              sms_keys |-> [j \in 1..n |-> Len(sms_message) + j]]
                                        ELSE Failure("schedule-sms", "store error")
    /\ requests' = requests + 1
    /\ UNCHANGED <<now, tk, sn>>

ScheduleSms == RunScheduleSms(BOOLEAN)

\* ------------------------------------------------------ send_sms_now
IdleSendNow ==
    [pc |-> "idle", valid_phones |-> <<>>, i |-> 0, message_body |-> <<>>,
     sms_keys |-> <<>>, results |-> <<>>, request |-> NoRequest]

\* send_date=datetime.fromisoformat(datetime.now().replace('T', ' '))
SendDate(t) == fromisoformat(datetime_replace(PyDatetime(t), PyStr("T"), PyStr(" ")))

\* POST /api/send-sms-now, up to the await of the first batch's send_sms.
RunSendSmsNow(faults) ==
    /\ ~Stopped
    /\ requests < MaxRequests
    /\ sn.pc = "idle"
    /\ \E form \in SendNowForms :
         \E all_phones \in ListOfSet(Merged(form)) :
            LET message_body == form.message_body
                valid_phones == validate_phone_numbers(all_phones).valid
                rejected(message) ==
                    /\ reply' = Failure("send-sms-now", message)
                    /\ sn' = sn
            IN  /\ Len(sms_message) + NumBatches(valid_phones) <= MaxRows
                /\ \E directory_fault \in faults :
                   IF ~is_valid(message_body) THEN rejected("length exceeded")
                   ELSE IF directory_fault THEN rejected("store error")
                   ELSE IF Len(all_phones) = 0 THEN rejected("no recipients")
                   ELSE IF Len(valid_phones) = 0 THEN rejected("no valid phone numbers")
                   ELSE /\ sn' = [IdleSendNow EXCEPT !.pc = "post", !.valid_phones = valid_phones,
                                      !.message_body = message_body,
                                      !.request = [recipients |-> Batch(valid_phones, 0),
                                                   message |-> message_body]]
                        /\ reply' = NoReply
    /\ requests' = requests + 1
    /\ UNCHANGED <<now, sms_message, gw_calls, tk, api>>

SendSmsNow == RunSendSmsNow(BOOLEAN)

\* The exchange of the current batch ends.  On success the record is
\* inserted with the send date and then marked with the result (either store
\* call may raise: fault 1 the insert, fault 2 the update); then the next
\* batch is sent, or the response lists the keys and the results.
SendNowResume(x, fault) ==
    LET o == send_sms(x)
        results == Append(sn.results, o.result)
        send_date == SendDate(now)
        sms_key == Len(sms_message) + 1
        inserted == insert_sms_message(sms_message, now, "IMMEDIATE", sn.message_body,
                                       Join(Batch(sn.valid_phones, sn.i)), NULL, send_date.value)
        marked == update_sms_status(inserted, now, sms_key, o.result.result_code,
                                    o.result.result_text, o.result.message_id)
        raised == o.success /\ (send_date.type = "raise" \/ fault > 0)
        stored == o.success /\ send_date.type # "raise" /\ fault # 1
        sms_keys == IF o.success THEN Append(sn.sms_keys, sms_key) ELSE sn.sms_keys
        next == sn.i + batch_size
    IN  /\ sms_message' = IF ~stored THEN sms_message
                          ELSE IF fault = 2 THEN inserted ELSE marked
        /\ gw_calls' = IF stored THEN Append(gw_calls, 1) ELSE gw_calls
        /\ IF raised
           THEN /\ sn' = IdleSendNow
                /\ reply' = Failure("send-sms-now",
                                    IF send_date.type = "raise" THEN send_date.value
                                    ELSE "store error")
           ELSE IF next < Len(sn.valid_phones)
           THEN /\ sn' = [sn EXCEPT !.i = next, !.results = results, !.sms_keys = sms_keys,
                                    !.request = [recipients |-> Batch(sn.valid_phones, next),
                                                 message |-> sn.message_body]]
                /\ reply' = reply
           ELSE /\ sn' = IdleSendNow
                /\ reply' = [endpoint |-> "send-sms-now", success |-> TRUE, message |-> "sent",
                             sms_keys |-> sms_keys, results |-> results]
        /\ UNCHANGED <<now, tk, requests, api>>

\* ------------------------------------------------ the gateway's answer
Callers == Executors \cup {"send_now"}

AwaitingPost(c) == IF c = "send_now" THEN sn.pc = "post" ELSE tk[c].pc = "post"

\* The POST a caller awaits in send_sms ends in one of the ways an exchange
\* can end, and the caller runs on to its next await.
AnswerPost(c, faults) ==
    /\ AwaitingPost(c)
    /\ \E x \in Answers, fault \in 0..(IF TRUE \in faults THEN 2 ELSE 0) :
         IF c = "send_now"
         THEN SendNowResume(x, fault)
         ELSE TickResume(c, x, fault > 0) /\ UNCHANGED <<now, sn, reply, requests, api>>

GatewayResponds(c) == AnswerPost(c, BOOLEAN)

\* ------------------------------------------------------ specification
\* The table outlives the process: it starts empty, or holds a record an
\* earlier run has created, and marked or not.
MarkedRow ==
    [NewRow(0, "PROMO", Hello, Phone(2), NULL, 0) EXCEPT
        !.return_code = "00000", !.return_message = "OK", !.message_id = "M0"]

\* No direct call of send_sms made yet.
NoCall == [pc |-> "idle", posts |-> 0, exchange |-> Timeout, outcome |-> send_sms(Timeout)]

\* No direct call of the resolver's functions made yet.
NoResolve == [op |-> "none", input |-> <<>>, list |-> <<>>, validated |-> validate_phone_numbers(<<>>)]

\* The store has raised in no schedule request.
NoFaults == [directory |-> FALSE, fail_at |-> 0]

\* No direct call of update_sms_status made yet.
NoUpdate == [op |-> "none", smskey |-> 0, rowcount |-> PyInt(0), affected |-> PyNone]

\* No direct call of _build_xml_request made yet.
NoBuild == [op |-> "none", recipients |-> <<>>, message |-> <<>>, xml_request |-> <<>>]

\* The batching loop not yet entered.
NoBatch == [valid_phones |-> <<>>, i |-> 0, chunks |-> <<>>]

\* A record an earlier run has scheduled and not sent.
PendingRow == NewRow(0, "PROMO", Hello, Phone(2), NULL, NULL)

Init ==
    /\ now = 0
    /\ sms_message \in {<<>>, <<MarkedRow>>, <<PendingRow>>}
    /\ gw_calls = [k \in 1..Len(sms_message) |-> IF sms_message[k].send_date = NULL THEN 0 ELSE 1]
    /\ tk = [t \in Executors |-> IdleExecutor(t)]
    /\ sn = IdleSendNow
    /\ reply = NoReply
    /\ requests = 0
    /\ api = [pending |-> <<>>, marked |-> {}, lap |-> 0, call |-> NoCall, batch |-> NoBatch, resolver |-> NoResolve, codec |-> NoBuild, update |-> NoUpdate, faults |-> NoFaults]

Next ==
    \/ Tick
    \/ ScheduleSms
    \/ SendSmsNow
    \/ \E t \in Executors : ProcessScheduledSms(t)
    \/ \E c \in Callers : GatewayResponds(c)
    \/ Shutdown

Spec == Init /\ [][Next]_vars

\* ------------------------------------------- DatabaseHandler on its own
\* The operations of the Dispatch Record Store called directly, in any
\* order, as the handler's unit tests call them.
StoreInsert ==
    /\ Len(sms_message) < MaxRows
    /\ \E schedule_date \in {NULL} \cup 0..MaxTime, send_date \in {NULL, now} :
         sms_message' = insert_sms_message(sms_message, now, "TEST", Hello, Phone(1),
                                           schedule_date, send_date)
    /\ gw_calls' = Append(gw_calls, 0)
    /\ UNCHANGED <<now, tk, sn, reply, requests, api>>

\* update_sms_status on any key, also one no row has; marked records the
\* keys of the rows it was applied to, update the row count of the
\* statement and the value the caller got.
StoreUpdate ==
    /\ \E smskey \in 1..MaxRows, outcome \in {send_sms(Accepted), send_sms(Timeout)} :
         /\ sms_message' = update_sms_status(sms_message, now, smskey, outcome.result.result_code,
                                             outcome.result.result_text, outcome.result.message_id)
         /\ api' = [api EXCEPT !.marked = @ \cup ({smskey} \cap (1..Len(sms_message))),
                               !.update = [op |-> "returned", smskey |-> smskey,
                                           rowcount |-> execute_update(sms_message, smskey),
                                           affected |-> update_sms_status_returns(sms_message, smskey)]]
    /\ UNCHANGED <<now, gw_calls, tk, sn, reply, requests>>

\* get_pending_sms_messages; lap is the parity of the calls made.
StoreGetPending ==
    /\ \E msgs \in get_pending_sms_messages(sms_message, now) :
         api' = [api EXCEPT !.pending = msgs, !.lap = 1 - @]
    /\ UNCHANGED <<now, sms_message, gw_calls, tk, sn, reply, requests>>

StoreNext ==
    \/ Tick
    \/ StoreInsert
    \/ StoreUpdate
    \/ StoreGetPending

StoreSpec == Init /\ [][StoreNext]_vars

\* ------------------------------------------------ SMSGateway on its own
\* send_sms called directly, as its unit tests call it with a mocked
\* client: the call runs up to `await client.post`.
GatewayCall ==
    /\ api.call.pc # "post"
    /\ api' = [api EXCEPT !.call = [NoCall EXCEPT !.pc = "post"]]
    /\ UNCHANGED <<now, sms_message, gw_calls, tk, sn, reply, requests>>

\* The exchange ends and send_sms returns; posts counts the POSTs of the call.
GatewayAnswer ==
    /\ api.call.pc = "post"
    /\ \E x \in ExchangeSpace :
         api' = [api EXCEPT !.call = [pc |-> "returned", posts |-> api.call.posts + 1,
                                      exchange |-> x, outcome |-> send_sms(x)]]
    /\ UNCHANGED <<now, sms_message, gw_calls, tk, sn, reply, requests>>

GatewayNext ==
    \/ GatewayCall
    \/ GatewayAnswer

GatewaySpec == Init /\ [][GatewayNext]_vars

\* ------------------------------------------- the batching loop on its own
\* The loop `for i in range(0, len(valid_phones), batch_size)` of both
\* handlers, entered with a list of n distinct valid numbers.
BatchStart ==
    \E n \in 1..MaxBatchInput :
        /\ api' = [api EXCEPT !.batch = [NoBatch EXCEPT !.valid_phones = [j \in 1..n |-> Phone(j)]]]
        /\ UNCHANGED <<now, sms_message, gw_calls, tk, sn, reply, requests>>

\* One iteration: batch_phones = valid_phones[i:i+batch_size].
BatchStep ==
    /\ api.batch.i < Len(api.batch.valid_phones)
    /\ api' = [api EXCEPT !.batch.chunks = Append(@, Batch(api.batch.valid_phones, api.batch.i)),
                          !.batch.i = @ + batch_size]
    /\ UNCHANGED <<now, sms_message, gw_calls, tk, sn, reply, requests>>

BatchNext ==
    \/ BatchStart
    \/ BatchStep

BatchSpec == Init /\ [][BatchNext]_vars

\* --------------------------------------- the resolver's functions on their own
\* The numbers of the unit tests and of the specification's scenario.
P1 == <<"0", "9", "1", "2", "3", "4", "5", "6", "7", "8">>
P2 == <<"0", "9", "8", "7", "6", "5", "4", "3", "2", "1">>
Short == <<"1", "2", "3", "4", "5">>

\* Texts a number may arrive as: well formed, padded, too short, too long,
\* with another prefix, with a letter, with a blank inside, empty, blank.
Candidates ==
    {P1, P2, <<" ">> \o P1 \o <<" ">>, Short, SubSeq(P1, 1, 9), P1 \o <<"9">>,
     <<"0", "8">> \o SubSeq(P1, 3, 10), <<"0", "9", "a">> \o SubSeq(P1, 4, 10),
     <<"0", "9", " ">> \o SubSeq(P1, 4, 10), <<>>, <<" ">>}

PhoneLists == UNION {[1..n -> Candidates] : n \in 0..MaxList}

Fragments == {P1, P2, <<" ">> \o P2 \o <<" ">>, Short, <<>>, <<" ">>}

Separators == {",", ";"}

\* The texts of up to n fragments with a separator between two of them.
RECURSIVE PhoneStrings(_)
PhoneStrings(n) ==
    IF n = 1 THEN Fragments
    ELSE PhoneStrings(n - 1) \cup
         {s \o <<sep>> \o f : s \in PhoneStrings(n - 1), sep \in Separators, f \in Fragments}

\* validate_phone_numbers called once, as its unit test calls it.
CallValidatePhoneNumbers ==
    /\ api.resolver.op = "none"
    /\ \E phone_numbers \in PhoneLists :
         api' = [api EXCEPT !.resolver = [op |-> "validate", input |-> phone_numbers, list |-> <<>>,
                                          validated |-> validate_phone_numbers(phone_numbers)]]
    /\ UNCHANGED <<now, sms_message, gw_calls, tk, sn, reply, requests>>

\* format_phone_list called once, and validate_phone_numbers on its result
\* as the handlers call it.
CallFormatPhoneList ==
    /\ api.resolver.op = "none"
    /\ \E phone_string \in PhoneStrings(MaxFragments) :
         api' = [api EXCEPT !.resolver =
                    [op |-> "format", input |-> phone_string,
                     list |-> format_phone_list(phone_string),
                     validated |-> validate_phone_numbers(format_phone_list(phone_string))]]
    /\ UNCHANGED <<now, sms_message, gw_calls, tk, sn, reply, requests>>

ResolverNext ==
    \/ CallValidatePhoneNumbers
    \/ CallFormatPhoneList

ResolverSpec == Init /\ [][ResolverNext]_vars

\* ------------------------------- the system with a second writer
\* The handlers and the task, and update_sms_status called on any key at any
\* moment, as a writer the handlers do not know of calls it.
WritersNext ==
    \/ Next
    \/ StoreUpdate

WritersSpec == Init /\ [][WritersNext]_vars

\* ------------------------------------------- the request codec on its own
\* Message bodies: the scenario's and the unit test's, and bodies that are
\* part of the markup, of a flag, of a recipient or of their own encoding.
Bodies ==
    {Hello, TestBody, <<"e">>, <<"Q">>, <<"S", "m", "s">>, <<"t", "r", "u", "e">>, P1}

RecipientLists == UNION {[1..n -> {P1, P2, <<" ">> \o P1}] : n \in 0..MaxList}

\* _build_xml_request called once, as its unit test calls it.
CallBuildXmlRequest ==
    /\ api.codec.op = "none"
    /\ \E recipients \in RecipientLists, message \in Bodies :
         api' = [api EXCEPT !.codec = [op |-> "built", recipients |-> recipients, message |-> message,
                                       xml_request |-> build_xml_request(recipients, message)]]
    /\ UNCHANGED <<now, sms_message, gw_calls, tk, sn, reply, requests>>

CodecNext == CallBuildXmlRequest

CodecSpec == Init /\ [][CodecNext]_vars

\* The system with a store that does not fail and no shutdown, the event
\* loop running every timer that is due and every exchange to its end (each
\* POST is bounded by its 30 s timeout).
ReliableNext ==
    \/ Tick
    \/ RunScheduleSms({FALSE})
    \/ RunSendSmsNow({FALSE})
    \/ \E t \in Executors : RunProcessScheduledSms(t, {FALSE})
    \/ \E c \in Callers : AnswerPost(c, {FALSE})

FairSpec ==
    /\ Init
    /\ [][ReliableNext]_vars
    /\ WF_vars(Tick)
    /\ WF_vars(RunProcessScheduledSms("task", {FALSE}))
    /\ \A c \in Callers : WF_vars(AnswerPost(c, {FALSE}))

\* The whole system, store faults and shutdown included, the event loop
\* running the task's timer and every exchange to its end.
FaultyFairSpec ==
    /\ Spec
    /\ WF_vars(RunProcessScheduledSms("task", BOOLEAN))
    /\ \A c \in Callers : WF_vars(AnswerPost(c, BOOLEAN))

\* ------------------------------------------------------------ claims
Keys == 1..Len(sms_message)

Terminal(k) == sms_message[k].send_date # NULL

\* A pending row whose schedule date, if any, has come.
Due(k) ==
    /\ sms_message[k].send_date = NULL
    /\ (sms_message[k].schedule_date = NULL \/ sms_message[k].schedule_date <= now)

Fetched(t) == Range(tk[t].fetched)

LoggedKeys(t) == {tk[t].errors[i].sms_key : i \in 1..Len(tk[t].errors)}

\* The executor's last run has returned a success response and logged no
\* store exception.
RanWithoutStoreError(t) ==
    /\ tk[t].returned
    /\ tk[t].response.success
    /\ \A i \in 1..Len(tk[t].errors) : tk[t].errors[i].exception # "store error"

C2_FetchedRowsAreSentAndTerminal ==
    \A t \in Executors :
        RanWithoutStoreError(t) => \A k \in Fetched(t) : Terminal(k) /\ gw_calls[k] >= 1

\* C3: with a store that does not fail and a fair scheduler, a pending row
\* that is due eventually becomes terminal.
C3_DueRowsBecomeTerminal ==
    \A k \in 1..MaxRows :
        (IF k \in Keys THEN Due(k) ELSE FALSE) ~> (IF k \in Keys THEN Terminal(k) ELSE FALSE)

\* C4: a run of process_scheduled_sms fetches only rows that are pending and
\* whose schedule date is not later than the time of the read, and the row
\* it awaits the gateway for is one of the rows it fetched.
C4_OnlyDueRowsAreFetched ==
    /\ [][\A t \in Executors :
            (tk[t].pc = StartPc(t) /\ tk'[t] # tk[t] /\ tk'[t].pc # "cancelled")
                => \A k \in Range(tk'[t].fetched) : k \in Keys /\ Due(k)]_vars
    /\ [](\A t \in Executors :
            tk[t].pc = "post" => tk[t].pending_messages[tk[t].i].smskey \in Fetched(t))

\* A row scheduled for later was left out by the run that read before its
\* date and fetched by a run that read at its date, which left out a
\* terminal row.
C4_Witness ==
    \E k, j \in Keys :
        /\ sms_message[k].schedule_date # NULL
        /\ k \in Fetched("task")
        /\ tk["endpoint"].returned
        /\ sms_message[k].create_date <= tk["endpoint"].read_at
        /\ tk["endpoint"].read_at < sms_message[k].schedule_date
        /\ k \notin Fetched("endpoint")
        /\ Terminal(j) /\ j \notin Fetched("task")

\* C5: get_pending_sms_messages returns exactly the rows with send_date NULL
\* and schedule_date NULL or not later than now, each once, and none that
\* update_sms_status has been applied to.
C5_PendingQueryReturnsExactlyDueRows ==
    [][api'.lap # api.lap =>
          LET msgs == api'.pending
          IN  /\ {msgs[i].smskey : i \in 1..Len(msgs)} =
                    {k \in Keys : /\ sms_message[k].send_date = NULL
                                  /\ \/ sms_message[k].schedule_date = NULL
                                     \/ sms_message[k].schedule_date <= now}
              /\ \A i, j \in 1..Len(msgs) : msgs[i].smskey = msgs[j].smskey => i = j
              /\ \A i \in 1..Len(msgs) : msgs[i].smskey \notin api.marked]_vars

\* A call has returned one row of a table of two, the other being a row
\* update_sms_status was applied to.
C5_Witness ==
    /\ Len(api.pending) = 1
    /\ Len(sms_message) = 2
    /\ ~Terminal(api.pending[1].smskey)
    /\ \E k \in api.marked : k # api.pending[1].smskey /\ Terminal(k)

C7_EveryAttemptedBatchIsRecorded ==
    /\ Len(sn.sms_keys) = Len(sn.results)
    /\ (reply.endpoint = "send-sms-now" /\ reply.success) =>
          /\ Len(reply.sms_keys) = Len(reply.results)
          /\ \A j \in 1..Len(reply.sms_keys) :
                LET row == sms_message[reply.sms_keys[j]]
                IN  /\ row.send_date # NULL
                    /\ row.return_code = reply.results[j].result_code
                    /\ row.return_message = reply.results[j].result_text
                    /\ row.message_id = reply.results[j].message_id

\* C8: a send-now request that passed validation is not answered with a
\* failure (a store exception aside), and its response lists the outcomes
\* of its batches.
C8_NoHardFailureAfterValidation ==
    reply.endpoint = "send-sms-now" =>
        IF reply.success THEN Len(reply.results) >= 1 /\ Len(reply.sms_keys) <= Len(reply.results)
        ELSE reply.message \in {"length exceeded", "no recipients",
                                "no valid phone numbers", "store error"}

C11_TicksKeepOccurring ==
    /\ []<>(Stopped \/ tk["task"].lap = 0)
    /\ []<>(Stopped \/ tk["task"].lap = 1)

\* The task is back at its sleep after a tick, not its first, that the
\* pending query's exception ended.
C11_Witness ==
    /\ tk["task"].pc = "sleep"
    /\ tk["task"].returned
    /\ ~tk["task"].response.success
    /\ tk["task"].response.message = "store error"
    /\ tk["task"].lap = 0

\* Position of smskey k in the list of keys a run fetched.
FetchedAt(t, k) == CHOOSE i \in 1..Len(tk[t].fetched) : tk[t].fetched[i] = k

\* C12: the rows of one run of process_scheduled_sms are fetched in
\* ascending create_date order (rows of equal create_date in either order),
\* and the loop handles them in the order fetched.
C12_RowsHandledOldestFirst ==
    \A t \in Executors :
        LET f == tk[t].fetched
            e == tk[t].errors
        IN  /\ \A i, j \in 1..Len(f) :
                  i < j => sms_message[f[i]].create_date <= sms_message[f[j]].create_date
            /\ \A a, b \in 1..Len(e) : a < b => FetchedAt(t, e[a].sms_key) < FetchedAt(t, e[b].sms_key)
            /\ tk[t].pc = "post" =>
                  /\ tk[t].pending_messages[tk[t].i].smskey = f[tk[t].i]
                  /\ \A a \in 1..Len(e) : FetchedAt(t, e[a].sms_key) < tk[t].i

\* A run fetched an older and a newer row and handled the older one first.
C12_Witness ==
    \E t \in Executors :
        /\ tk[t].returned
        /\ Len(tk[t].fetched) = 2 /\ Len(tk[t].errors) = 2
        /\ sms_message[tk[t].fetched[1]].create_date < sms_message[tk[t].fetched[2]].create_date
        /\ tk[t].errors[1].sms_key = tk[t].fetched[1]

\* C13: update_sms_status applied to a row it has already been applied to
\* leaves the row's send_date and its three result fields as they were.
C13_MarkTerminalIsIdempotent ==
    [][\A k \in Keys :
          (Terminal(k) /\ k \in api.marked) =>
              /\ sms_message'[k].send_date = sms_message[k].send_date
              /\ sms_message'[k].return_code = sms_message[k].return_code
              /\ sms_message'[k].return_message = sms_message[k].return_message
              /\ sms_message'[k].message_id = sms_message[k].message_id]_vars

\* C14: a row whose send_date is NULL has return_code, return_message and
\* message_id all absent.
C14_PendingRowsCarryNoResult ==
    \A k \in Keys :
        sms_message[k].send_date = NULL =>
            /\ sms_message[k].return_code = None
            /\ sms_message[k].return_message = None
            /\ sms_message[k].message_id = None

\* A pending row beside a row that update_sms_status gave a result.
C14_Witness ==
    \E k, j \in Keys :
        /\ sms_message[k].send_date = NULL
        /\ j \in api.marked
        /\ sms_message[j].send_date # NULL
        /\ sms_message[j].return_code = "NETWORK_ERROR"

C16_AnyPostExceptionIsNetworkError ==
    (api.call.pc = "returned" /\ api.call.exchange.raises # "none") =>
        /\ ~api.call.outcome.success
        /\ api.call.outcome.result.result_code = "NETWORK_ERROR"

\* C17: send_sms returns, for every exchange, after exactly one POST, a
\* pair of a boolean and a dictionary with the keys result_code,
\* result_text and message_id; it raises nothing.
C17_OnePostAndATotalOutcome ==
    /\ api.call.posts <= 1
    /\ api.call.pc = "returned" =>
          /\ api.call.posts = 1
          /\ DOMAIN api.call.outcome = {"success", "result"}
          /\ api.call.outcome.success \in BOOLEAN
          /\ DOMAIN api.call.outcome.result = {"result_code", "result_text", "message_id"}

\* send_sms has returned for a 200 answer whose body is not XML.
C17_Witness ==
    /\ api.call.pc = "returned"
    /\ api.call.posts = 1
    /\ api.call.exchange.raises = "none"
    /\ api.call.exchange.status_code = 200
    /\ ~api.call.exchange.well_formed
    /\ api.call.outcome.result.result_code = "SYSTEM_ERROR"

NoDuplicates(list) == \A i, j \in 1..Len(list) : list[i] = list[j] => i = j

\* C18: the list of numbers schedule_sms and send_sms_now hand to the
\* batching loop holds no number twice: not in the recipients of a created
\* row, nor in the list a send-now request is sending to.
C18_RecipientsAreDistinct ==
    /\ NoDuplicates(sn.valid_phones)
    /\ \A k \in Keys : NoDuplicates(Split(sms_message[k].recipient_no, ","))

RECURSIVE Concat(_)
Concat(lists) == IF Len(lists) = 0 THEN <<>> ELSE Head(lists) \o Concat(Tail(lists))

\* C19: when the batching loop over a non-empty list ends, each chunk holds
\* 1 to 20 numbers, only the last may hold fewer than 20, and the chunks
\* joined in order are the input list; 45 numbers give chunks of 20, 20, 5.
C19_ChunksPartitionTheInput ==
    LET b == api.batch
    IN  /\ \A c \in 1..Len(b.chunks) : Len(b.chunks[c]) \in 1..20
        /\ \A c \in 1..(Len(b.chunks) - 1) : Len(b.chunks[c]) = 20
        /\ Concat(b.chunks) =
              SubSeq(b.valid_phones, 1, IF b.i < Len(b.valid_phones) THEN b.i ELSE Len(b.valid_phones))
        /\ (b.i >= Len(b.valid_phones) /\ Len(b.valid_phones) = 45) =>
              [c \in 1..Len(b.chunks) |-> Len(b.chunks[c])] = <<20, 20, 5>>

\* The loop over 45 numbers has ended with three chunks.
C19_Witness ==
    /\ Len(api.batch.valid_phones) = 45
    /\ api.batch.i >= 45
    /\ Len(api.batch.chunks) = 3

\* The numbers of a row's recipient list.
Recipients(row) == Split(row.recipient_no, ",")

ValidationMessages ==
    {"length exceeded", "no recipients", "no valid phone numbers", "schedule date format error"}

\* A number of the form 09 + 8 digits.
WellFormedNumber(phone) == StartsWith(phone, <<"0", "9">>) /\ Len(phone) = 10 /\ IsDigit(phone)

\* C21: a request that validation rejects is answered with a failure that
\* names the condition, and its step creates no row and makes no gateway
\* call; so every row the handlers create, and every batch a send-now
\* request sends, has a body of at most 70 characters, at least one
\* recipient, well-formed numbers only and a schedule date that is a time.
C21_RejectedRequestsLeaveNoTrace ==
    /\ [][(requests' # requests /\ ~reply'.success /\ reply'.endpoint # "none") =>
            /\ reply'.message \in ValidationMessages \cup {"store error"}
            /\ reply'.message \in ValidationMessages =>
                  /\ sms_message' = sms_message
                  /\ gw_calls' = gw_calls
                  /\ sn'.pc = sn.pc
                  /\ tk' = tk]_vars
    /\ [](\A k \in Keys :
            /\ Len(sms_message[k].message_body) <= 70
            /\ Len(Recipients(sms_message[k])) >= 1
            /\ \A i \in 1..Len(Recipients(sms_message[k])) :
                  WellFormedNumber(Recipients(sms_message[k])[i])
            /\ sms_message[k].schedule_date \in {NULL} \cup 0..MaxTime)
    /\ [](sn.pc = "post" =>
            /\ Len(sn.request.message) <= 70
            /\ Len(sn.request.recipients) >= 1
            /\ \A i \in 1..Len(sn.request.recipients) : WellFormedNumber(sn.request.recipients[i]))

\* A send-now request with a body of 71 characters has been refused, the
\* table still empty and nothing sent.
C21_Witness ==
    /\ reply = Failure("send-sms-now", "length exceeded")
    /\ requests = 1
    /\ sms_message = <<>>
    /\ sn.pc = "idle"

Unify(phone_string) ==
    [i \in 1..Len(phone_string) |-> IF phone_string[i] = ";" THEN "," ELSE phone_string[i]]

\* C23: format_phone_list returns the fragments between the commas and
\* semicolons of its input, trimmed, the empty ones dropped, in input
\* order; the empty text gives the empty list, and
\* "0912345678,0987654321;12345" validates to 0912345678 and 0987654321.
C23_FormatSplitsOnBothSeparators ==
    api.resolver.op = "format" =>
        LET in == api.resolver.input
            pieces == Split(Unify(in), ",")
            trimmed == [i \in 1..Len(pieces) |-> Strip(pieces[i])]
        IN  /\ api.resolver.list = SelectSeq(trimmed, LAMBDA f : Len(f) > 0)
            /\ in = <<>> => api.resolver.list = <<>>
            /\ in = P1 \o <<",">> \o P2 \o <<";">> \o Short =>
                  /\ api.resolver.list = <<P1, P2, Short>>
                  /\ api.resolver.validated = [ok |-> FALSE, valid |-> <<P1, P2>>]

\* The scenario's text has been formatted and validated.
C23_Witness ==
    /\ api.resolver.op = "format"
    /\ api.resolver.input = P1 \o <<",">> \o P2 \o <<";">> \o Short
    /\ Range(api.resolver.validated.valid) = {P1, P2}

\* The positions at which sub begins in text.
Occurrences(sub, text) ==
    {i \in 1..(Len(text) + 1 - Len(sub)) : SubSeq(text, i, i + Len(sub) - 1) = sub}

Occurs(sub, text) == Occurrences(sub, text) # {}

\* <tag>
Opening(tag) == <<"<">> \o tag \o <<">">>

\* <tag>text</tag>
Whole(tag, text) == Opening(tag) \o text \o <<"<", "/">> \o tag \o <<">">>

\* The only position of sub in text, 0 if it is not there exactly once.
Only(sub, text) ==
    IF Cardinality(Occurrences(sub, text)) = 1 THEN CHOOSE i \in Occurrences(sub, text) : TRUE ELSE 0

\* The base64 texts of the bodies, as Python computes them.
ExpectedBase64(message) ==
    CASE message = Hello -> <<"a", "G", "V", "s", "b", "G", "8", "=">>
      [] message = TestBody ->
            <<"5", "r", "i", "s", "6", "K", "m", "m", "6", "K", "i", "K", "5", "o", "G", "v">>
      [] message = <<"e">> -> <<"Z", "Q", "=", "=">>
      [] message = <<"Q">> -> <<"U", "Q", "=", "=">>
      [] message = <<"S", "m", "s">> -> <<"U", "2", "1", "z">>
      [] message = <<"t", "r", "u", "e">> -> <<"d", "H", "J", "1", "Z", "Q", "=", "=">>
      [] OTHER -> <<"M", "D", "k", "x", "M", "j", "M", "0", "N", "T", "Y", "3", "O", "A", "=", "=">>

\* The request has its fields once each and in the fixed order, one
\* DestAddress per recipient in list order, and SmsBody holds the base64
\* text of the body.
RequestLayout(recipients, message, text) ==
    LET dest == Occurrences(Opening(TagDestAddress), text)
        nth(k) == CHOOSE i \in dest : Cardinality({j \in dest : j <= i}) = k
        first == Only(Opening(TagSysId), text)
        second == Only(Opening(TagSrcAddress), text)
        body == Only(Opening(TagSmsBody), text)
        dr == Only(Opening(TagDrFlag), text)
        fail == Only(Opening(TagFirstFailFlag), text)
    IN  /\ 0 < first /\ first < second /\ second < body /\ body < dr /\ dr < fail
        /\ Cardinality(dest) = Len(recipients)
        /\ \A i \in dest : second < i /\ i < body
        /\ \A k \in 1..Len(recipients) :
              LET whole == Whole(TagDestAddress, Strip(recipients[k]))
              IN  SubSeq(text, nth(k), nth(k) + Len(whole) - 1) = whole
        /\ LET whole == Whole(TagSmsBody, ExpectedBase64(message))
           IN  SubSeq(text, body, body + Len(whole) - 1) = whole

\* The text of the request with the content of SmsBody taken out.
AroundSmsBody(text) ==
    LET body == Only(Opening(TagSmsBody), text)
        close == Only(<<"<", "/">> \o TagSmsBody \o <<">">>, text)
    IN  SubSeq(text, 1, body + Len(Opening(TagSmsBody)) - 1) \o SubSeq(text, close, Len(text))

\* C24 (as stated): the request has the fixed field order, SmsBody holds the
\* base64 text of the body, and the body itself occurs nowhere in the
\* request.
C24_PlaintextNeverOccurs ==
    api.codec.op = "built" =>
        /\ RequestLayout(api.codec.recipients, api.codec.message, api.codec.xml_request)
        /\ ~Occurs(api.codec.message, api.codec.xml_request)

\* C24 (amended): the request has the fixed field order and SmsBody holds
\* the base64 text of the body; that content is the only part of the
\* request that depends on the body (the text around it is the text of the
\* request for the same recipients and an empty body), and with recipients
\* made of digits the bodies "hello" and the unit test's do not occur in
\* the request.
C24_BodyIsWrittenOnlyEncoded ==
    api.codec.op = "built" =>
        /\ RequestLayout(api.codec.recipients, api.codec.message, api.codec.xml_request)
        /\ AroundSmsBody(api.codec.xml_request)
              = AroundSmsBody(build_xml_request(api.codec.recipients, <<>>))
        /\ api.codec.message \in {Hello, TestBody} =>
              ~Occurs(api.codec.message, api.codec.xml_request)

\* The scenario's request: two recipients and the body "hello".
C24_Witness ==
    /\ api.codec.op = "built"
    /\ api.codec.recipients = <<P1, P2>>
    /\ api.codec.message = Hello
    /\ Occurs(<<"a", "G", "V", "s", "b", "G", "8", "=">>, api.codec.xml_request)
    /\ ~Occurs(Hello, api.codec.xml_request)

\* C25: update_sms_status returns the number of rows it affected; applied
\* to the key of an existing record it returns 1.
C25_UpdateReturnsRowsAffected ==
    api.update.op = "returned" =>
        /\ api.update.affected = api.update.rowcount
        /\ api.update.rowcount = PyInt(1) => api.update.affected = PyInt(1)

\* The columns of a row that are written at creation only.
Created(row) ==
    [create_date |-> row.create_date, message_class |-> row.message_class,
     message_body |-> row.message_body, recipient_no |-> row.recipient_no,
     schedule_date |-> row.schedule_date]

\* C26: no step removes a row or changes a row's key, class, body,
\* recipients, schedule_date or create_date; a step that changes an existing
\* row is a call of update_sms_status with that row's key, which changes no
\* other row, and no step of the scheduler, schedule or send-now paths
\* changes an existing row.
C26_OnlyMarkTerminalWritesAndOnlyItsRow ==
    [][/\ Len(sms_message') >= Len(sms_message)
       /\ \A k \in Keys :
            /\ Created(sms_message'[k]) = Created(sms_message[k])
            /\ sms_message'[k] # sms_message[k] =>
                  /\ api'.update.op = "returned" /\ api'.update.smskey = k
                  /\ Len(sms_message') = Len(sms_message)
                  /\ UNCHANGED <<now, gw_calls, tk, sn, reply, requests>>]_vars

\* After a schedule request was stored, update_sms_status has made one row
\* terminal while the other row of the table is still pending.
C26_Witness ==
    /\ api.update.op = "returned"
    /\ reply.endpoint = "schedule-sms" /\ reply.success
    /\ \E k, j \in Keys :
         /\ k # j /\ api.update.smskey = k
         /\ Terminal(k) /\ ~Terminal(j)
         /\ sms_message[k].message_class = "PROMO"

\* C27: a schedule request whose insert of chunk k raises is answered with
\* success false, and its step leaves the rows of chunks 1..k-1 in the
\* table, pending, 20 numbers each; a request answered with success met no
\* store exception; and a run of process_scheduled_sms whose pending query
\* does not raise fetches every row that is due at its read, the rows of
\* failed requests included.
C27_EarlierChunksStayAndAreFetched ==
    /\ [][(requests' # requests /\ reply'.endpoint = "schedule-sms") =>
            /\ reply'.success => api'.faults.fail_at = 0 /\ ~api'.faults.directory
            /\ (reply'.message = "store error" /\ ~api'.faults.directory) =>
                  /\ api'.faults.fail_at >= 1
                  /\ ~reply'.success
                  /\ Len(sms_message') = Len(sms_message) + api'.faults.fail_at - 1
                  /\ \A k \in Keys : sms_message'[k] = sms_message[k]
                  /\ \A k \in (Len(sms_message) + 1)..Len(sms_message') :
                        /\ sms_message'[k].send_date = NULL
                        /\ sms_message'[k].create_date = now
                        /\ Len(Recipients(sms_message'[k])) = 20]_vars
    /\ [][\A t \in Executors :
            (tk[t].pc = StartPc(t) /\ tk'[t] # tk[t] /\ tk'[t].pc # "cancelled"
                /\ tk'[t].returned /\ tk'[t].response.success)
                => Range(tk'[t].fetched) = {k \in Keys : Due(k)}]_vars
    /\ [][\A k \in Keys : k <= Len(sms_message') /\ (~Terminal(k) => sms_message'[k] = sms_message[k])]_vars

\* The second insert of a schedule request for 21 numbers raised: the
\* request was answered with a failure, the row of its first 20 numbers is
\* in the table, and the task has fetched it.
C27_Witness ==
    /\ reply.endpoint = "schedule-sms" /\ ~reply.success /\ reply.message = "store error"
    /\ api.faults = [directory |-> FALSE, fail_at |-> 2]
    /\ Len(sms_message) = 1
    /\ Len(Recipients(sms_message[1])) = 20
    /\ ~Terminal(1)
    /\ 1 \in Fetched("task")
    /\ tk["task"].returned

====
